---- MODULE Spec2Model ----
(***************************************************************************)
(* Model of src/index.js: the Cloudflare Worker that validates the         *)
(* CF_Authorization cookie against the connecting address.                 *)
(*                                                                         *)
(* One inbound request is handled per behaviour.  handleRequest is an      *)
(* async function: it is cut at its three suspension points (the awaited   *)
(* identity fetch of line 51, the awaited body read of line 63 and the     *)
(* returned promise of the origin fetch of line 76) and at its three early *)
(* returns, and pc is its position.                                        *)
(*                                                                         *)
(* Strings are sequences of lexemes.  A lexeme is one of the characters    *)
(* the code looks at (';', '=', white space) or a run of text containing   *)
(* none of them; no lexeme of the alphabet is a concatenation of others,   *)
(* so two strings are equal exactly when their sequences are equal.        *)
(* A character is a UTF-16 code unit; one that a string of this language   *)
(* cannot hold (NUL and every code unit above U+00FF) is the lexeme that   *)
(* spells it, "U+" and four hexadecimal digits.                            *)
(* A JavaScript value is a record [t, v]: t its type and v its text.       *)
(***************************************************************************)
EXTENDS Naturals, Sequences, FiniteSets

VARIABLES
    request,       \* the inbound request
    pc,            \* position of handleRequest
    cookies,       \* const cookies (line 29)
    cfAuthCookie,  \* const cfAuthCookie (line 30)
    lookupSent,    \* identity requests issued with fetch (line 51)
    identity,      \* how the identity lookup settled
    originSent,    \* requests passed to fetch(request) (line 76)
    origin,        \* how the origin fetch settled
    response,      \* the Response handleRequest resolved with
    exit           \* source line of the return statement taken

vars == <<request, pc, cookies, cfAuthCookie, lookupSent, identity,
          originSent, origin, response, exit>>

(***************************************************************************)
(* JavaScript values                                                       *)
(***************************************************************************)
Str(s) == [t |-> "string", v |-> s]

Num(s) == [t |-> "number", v |-> s]

Null == [t |-> "null", v |-> <<>>]

Undefined == [t |-> "undefined", v |-> <<>>]

\* ToBoolean, as used by every `if (!x)` of the source.
Truthy(x) ==
    CASE x.t = "string" -> x.v # <<>>
      [] x.t = "number" -> x.v # <<"0">>
      [] OTHER -> FALSE

\* Lower-casing of a string, lexeme by lexeme (used by a mutant only).
LowerLexeme(c) == IF c = "2001:DB8::A" THEN "2001:db8::a" ELSE c

\* Mutant of StrictEquals: a case-insensitive comparison.
EqualsIgnoringCase(a, b) ==
    /\ a.t = b.t
    /\ Len(a.v) = Len(b.v)
    /\ \A i \in 1..Len(a.v) : LowerLexeme(a.v[i]) = LowerLexeme(b.v[i])

\* The === operator: same type and same text.
StrictEquals(a, b) == a.t = b.t /\ a.v = b.v

(***************************************************************************)
(* String helpers: String.prototype.split, trim, Array.prototype.join      *)
(***************************************************************************)
HexDigits ==
    <<"0", "1", "2", "3", "4", "5", "6", "7", "8", "9", "A", "B", "C", "D", "E", "F">>

Hex(n) ==
    HexDigits[((n \div 4096) % 16) + 1] \o HexDigits[((n \div 256) % 16) + 1]
        \o HexDigits[((n \div 16) % 16) + 1] \o HexDigits[(n % 16) + 1]

\* The lexeme of the code unit n.
CodeUnit(n) == "U+" \o Hex(n)

\* Every code unit above U+00FF.
BeyondLatin1 == {CodeUnit(n) : n \in 256..65535}

\* What String.prototype.trim strips: the ECMAScript WhiteSpace and
\* LineTerminator characters.  Space, TAB, LF, CR and FF are written with
\* their escapes, U+000B and U+00A0 (the sixth and seventh string) as the
\* characters themselves, the ones above U+00FF as their lexemes.
WhiteSpace ==
    {" ", "\t", "\n", "\r", "\f", "", " ",
      "U+1680", "U+2000", "U+2001", "U+2002", "U+2003",
      "U+2004", "U+2005", "U+2006", "U+2007", "U+2008",
      "U+2009", "U+200A", "U+2028", "U+2029", "U+202F",
      "U+205F", "U+3000", "U+FEFF" }

\* The index of the first occurrence of sep in s, 0 when there is none.
RECURSIVE IndexFrom(_, _, _)
IndexFrom(s, sep, i) ==
    IF i > Len(s) THEN 0
    ELSE IF s[i] = sep THEN i
    ELSE IndexFrom(s, sep, i + 1)

\* s.split(sep): every piece between separators, empty pieces included.
RECURSIVE Split(_, _)
Split(s, sep) ==
    LET i == IndexFrom(s, sep, 1)
    IN IF i = 0 THEN <<s>>
       ELSE <<SubSeq(s, 1, i - 1)>> \o Split(SubSeq(s, i + 1, Len(s)), sep)

\* parts.join(sep)
RECURSIVE Join(_, _)
Join(parts, sep) ==
    IF parts = <<>> THEN <<>>
    ELSE IF Len(parts) = 1 THEN parts[1]
    ELSE parts[1] \o <<sep>> \o Join(Tail(parts), sep)

RECURSIVE TrimStart(_)
TrimStart(s) ==
    IF s # <<>> /\ Head(s) \in WhiteSpace THEN TrimStart(Tail(s)) ELSE s

RECURSIVE TrimEnd(_)
TrimEnd(s) ==
    IF s # <<>> /\ s[Len(s)] \in WhiteSpace
    THEN TrimEnd(SubSeq(s, 1, Len(s) - 1))
    ELSE s

\* s.trim()
Trim(s) == TrimEnd(TrimStart(s))

(***************************************************************************)
(* parseCookies                                                            *)
(***************************************************************************)
\* const cookies = {}: a plain object, modelled by its own properties.
EmptyObject == [k \in {} |-> <<>>]

ProtoName == <<"__proto__">>

\* cookies[name] = value on a plain object.  The name __proto__ reaches the
\* setter inherited from Object.prototype, which ignores a string: no own
\* property is created.
SetProperty(obj, name, value) ==
    IF name = ProtoName THEN obj
    ELSE [k \in (DOMAIN obj) \cup {name} |-> IF k = name THEN value ELSE obj[k]]

\* cookies[name] read back: the own property, else undefined.
GetProperty(obj, name) ==
    IF name \in DOMAIN obj THEN Str(obj[name]) ELSE Undefined

\* The body of the forEach callback, lines 98-103.
StoreCookie(obj, cookie) ==
    LET parts == Split(Trim(cookie), "=")
        name  == parts[1]
        value == Join(Tail(parts), "=")
    IN IF name # <<>> THEN SetProperty(obj, name, value) ELSE obj

RECURSIVE ForEachCookie(_, _)
ForEachCookie(obj, entries) ==
    IF entries = <<>> THEN obj
    ELSE ForEachCookie(StoreCookie(obj, Head(entries)), Tail(entries))

parseCookies(cookieHeader) ==
    IF Truthy(cookieHeader)
    THEN ForEachCookie(EmptyObject, Split(cookieHeader.v, ";"))
    ELSE EmptyObject

(***************************************************************************)
(* Inputs                                                                  *)
(***************************************************************************)
\* Longest Cookie header enumerated exhaustively over Alphabet.
MaxLen == 3

Alphabet == {";", "=", " ", "a", "CF_Authorization", "__proto__", "tok123"}

RECURSIVE SeqsUpTo(_)
SeqsUpTo(n) ==
    IF n = 0 THEN {<<>>}
    ELSE LET shorter == SeqsUpTo(n - 1)
         IN shorter \cup
            {Append(s, c) : s \in {x \in shorter : Len(x) = n - 1}, c \in Alphabet}

\* Longer headers, in which every case of the cookie grammar occurs.
ExampleHeaders ==
    { <<"a", "=", "1", ";", " ", "CF_Authorization", "=", "tok123", ";", " ",
        "b", "=", "x", "=", "y">>,
      <<"CF_Authorization", "=", "old", ";", " ", "CF_Authorization", "=", "tok123">>,
      <<"CF_Authorization", "=", "tok123", ";", "CF_Authorization">>,
      <<"cf_authorization", "=", "tok123">>,
      <<"\t", "CF_Authorization", " ", "=", "tok123">>,
      <<"a", "=", "1", ";", "\f", "CF_Authorization", "=", "tok123">>,
      <<"CF_Authorization", "=", "tok", "U+20AC", "x">>,
      <<"U+FEFF", "CF_Authorization", "=", "tok", "U+2003", "x", "U+3000">>,
      <<"", "CF_Authorization", "=", "tok123", "\f", " ", ";", " ", "a">>,
      <<"CF_Authorization", "=", "tok123", ";", "__proto__", "=", "x">>,
      <<"a", ";", "=", "x", ";", " ", "CF_Authorization", "=", "tok", "=", "=">> }

\* request.headers.get('Cookie'): null when the header is absent, else any
\* string without LF, CR or NUL, which no HTTP header field carries.
CookieHeaders == {Null} \cup {Str(s) : s \in SeqsUpTo(MaxLen) \cup ExampleHeaders}

\* Addresses: one IPv4, and one IPv6 address in three spellings.
Addresses == {<<"10.0.0.7">>, <<"2001:db8::a">>, <<"2001:DB8::A">>,
              <<"2001:0db8::a">>}

\* request.headers.get('CF-Connecting-IP'): null when the header is absent.
ClientIPs == {Null, Str(<<>>), Str(<<"10.0.0.7">>), Str(<<"2001:db8::a">>),
              Str(<<"2001:DB8::A">>)}

Hosts == {"app.example.com"}

Requests ==
    [method : {"GET", "POST"}, host : Hosts, cookie : CookieHeaders,
     clientIP : ClientIPs]

\* Status codes the identity endpoint may answer with.
Statuses == {200, 204, 302, 401, 500}

\* The body of the identity response as response.json() yields it.  kind
\* "invalid": json() rejects (no body, text that is not JSON, or the body
\* stream fails); "null": the JSON text null; "primitive": a JSON number,
\* string, boolean or array; "object": a JSON object whose ip member is ip
\* (Undefined when it has none).
IpClaims == {Undefined, Null, Str(<<>>), Num(<<"0">>), Num(<<"7">>)}
                \cup {Str(a) : a \in Addresses}

Bodies ==
    {[kind |-> k, ip |-> Undefined] : k \in {"invalid", "null", "primitive"}}
        \cup {[kind |-> "object", ip |-> i] : i \in IpClaims}

OriginResponses ==
    [status : {200, 403}, body : {"origin page", "Forbidden"},
     headers : {"content-type: text/html", "set-cookie: s=1"}]

(***************************************************************************)
(* Responses built by the worker                                           *)
(***************************************************************************)
PlainText == "content-type: text/plain;charset=UTF-8"

NoResponse == [status |-> 0, body |-> "", headers |-> ""]

\* new Response('Forbidden', { status: 403 })
ForbiddenResponse ==
    [status |-> 403, body |-> "Forbidden", headers |-> PlainText]

\* Mutant of MismatchResponse: the stray parenthesis removed.
MismatchWithoutParen ==
    [status |-> 403, body |-> "Forbidden", headers |-> PlainText]

\* new Response('Forbidden)', { status: 403 })
MismatchResponse ==
    [status |-> 403, body |-> "Forbidden)", headers |-> PlainText]

\* Mutant of InternalErrorResponse: the catch block answering with a denial.
ErrorAsForbidden ==
    [status |-> 403, body |-> "Forbidden", headers |-> PlainText]

\* new Response('Internal Server Error', { status: 500 })
InternalErrorResponse ==
    [status |-> 500, body |-> "Internal Server Error", headers |-> PlainText]

\* Mutant of IsOk: every answer below 500 taken as success.
IsOkBelow500(status) == status < 500

\* Response.ok: the status is in the range 200-299.
IsOk(status) == status >= 200 /\ status <= 299

\* fetch(request): the inbound request object itself is passed on.
ForwardedRequest(req) == req

\* Mutant of ReturnedResponse: the origin's status replaced by 200.
ReturnedAs200(originResponse) == [originResponse EXCEPT !.status = 200]

\* return fetch(request): the origin's response is the handler's result.
ReturnedResponse(originResponse) == originResponse

\* The identity request: GET https://{hostname}/cdn-cgi/access/get-identity
\* with the one header Cookie: CF_Authorization={token}.
IdentityRequest(hostname, token) ==
    [method |-> "GET", host |-> hostname, path |-> "/cdn-cgi/access/get-identity",
     cookie |-> <<"CF_Authorization", "=">> \o token.v]

\* Headers.prototype.append accepts a value only if it has no LF, CR or NUL
\* and no code unit above U+00FF; otherwise it throws a TypeError.
IsHeaderValue(s) ==
    \A i \in 1..Len(s) : s[i] \notin {"\n", "\r", CodeUnit(0)} \cup BeyondLatin1

NoIdentity == [kind |-> "none", status |-> 0, body |-> [kind |-> "none", ip |-> Undefined]]

\* The body of a 2xx identity response before json() has settled.
PendingBody == [kind |-> "pending", ip |-> Undefined]

NoOrigin == [kind |-> "none", response |-> NoResponse]

(***************************************************************************)
(* handleRequest                                                           *)
(***************************************************************************)
Init ==
    /\ request \in Requests
    /\ pc = "Start"
    /\ cookies = EmptyObject
    /\ cfAuthCookie = Undefined
    /\ lookupSent = <<>>
    /\ identity = NoIdentity
    /\ originSent = <<>>
    /\ origin = NoOrigin
    /\ response = NoResponse
    /\ exit = 0

\* `return new Response(...)` at the given source line.
Return(resp, line) ==
    /\ response' = resp
    /\ exit' = line
    /\ pc' = "Responded"

\* Lines 21-27: the Cookie header must be present and non-empty.
CheckCookieHeader ==
    /\ pc = "Start"
    /\ IF ~Truthy(request.cookie)
       THEN Return(ForbiddenResponse, 26)
       ELSE pc' = "HaveCookieHeader" /\ UNCHANGED <<response, exit>>
    /\ UNCHANGED <<request, cookies, cfAuthCookie, lookupSent, identity, originSent, origin>>

\* Lines 29-34: parse the header and take the CF_Authorization cookie.
ExtractToken ==
    /\ pc = "HaveCookieHeader"
    /\ cookies' = parseCookies(request.cookie)
    /\ cfAuthCookie' = GetProperty(cookies', <<"CF_Authorization">>)
    /\ IF ~Truthy(cfAuthCookie')
       THEN Return(ForbiddenResponse, 33)
       ELSE pc' = "HaveToken" /\ UNCHANGED <<response, exit>>
    /\ UNCHANGED <<request, lookupSent, identity, originSent, origin>>

\* Mutant of CheckClientIP: the check of the connecting address left out.
CheckClientIPSkipped ==
    /\ pc = "HaveToken"
    /\ pc' = "HaveClientIP"
    /\ UNCHANGED <<request, cookies, cfAuthCookie, lookupSent, identity, originSent,
                   origin, response, exit>>

\* Lines 37-41: the connecting address must be present.
CheckClientIP ==
    /\ pc = "HaveToken"
    /\ IF ~Truthy(request.clientIP)
       THEN Return(ForbiddenResponse, 40)
       ELSE pc' = "HaveClientIP" /\ UNCHANGED <<response, exit>>
    /\ UNCHANGED <<request, cookies, cfAuthCookie, lookupSent, identity, originSent, origin>>

\* Lines 44-54: build the identity request, issue it and suspend on it.
\* identityHeaders.append (line 48) stands before the try block: when it
\* throws, no lookup is issued and handleRequest's promise rejects.
LookupIdentity ==
    /\ pc = "HaveClientIP"
    /\ IF IsHeaderValue(IdentityRequest(request.host, cfAuthCookie).cookie)
       THEN /\ lookupSent' = Append(lookupSent,
                                    IdentityRequest(request.host, cfAuthCookie))
            /\ pc' = "AwaitIdentity"
       ELSE /\ pc' = "Rejected"
            /\ UNCHANGED lookupSent
    /\ UNCHANGED <<request, cookies, cfAuthCookie, identity, originSent, origin, response, exit>>

\* identityData.ip: undefined unless the body is an object with that member.
IdentityIP(body) == IF body.kind = "object" THEN body.ip ELSE Undefined

\* Lines 51-61: the awaited lookup fetch resolved with an HTTP response.
\* A response that is not ok is answered at once and its body, whatever the
\* endpoint sent, is never read; otherwise the handler suspends again on
\* identityResponse.json() (line 63).
IdentityResponded ==
    /\ pc = "AwaitIdentity"
    /\ \E status \in Statuses :
          IF ~IsOk(status)
          THEN /\ \E body \in Bodies :
                     identity' = [kind |-> "response", status |-> status, body |-> body]
               /\ Return(ForbiddenResponse, 60)
          ELSE /\ identity' = [kind |-> "response", status |-> status,
                               body |-> PendingBody]
               /\ pc' = "AwaitBody"
               /\ UNCHANGED <<response, exit>>
    /\ UNCHANGED <<request, cookies, cfAuthCookie, lookupSent, originSent, origin>>

\* Lines 63-86: the awaited identityResponse.json() settled.
BodyRead ==
    /\ pc = "AwaitBody"
    /\ \E body \in Bodies :
          /\ identity' = [identity EXCEPT !.body = body]
          /\ IF body.kind \in {"invalid", "null"}
             \* json() rejects, or reading .ip of null throws: the catch block
             THEN Return(InternalErrorResponse, 85) /\ UNCHANGED originSent
             ELSE IF ~Truthy(IdentityIP(body))
             THEN Return(ForbiddenResponse, 70) /\ UNCHANGED originSent
             ELSE IF StrictEquals(request.clientIP, IdentityIP(body))
             THEN /\ originSent' = Append(originSent, ForwardedRequest(request))
                  /\ pc' = "AwaitOrigin"
                  /\ exit' = 76
                  /\ UNCHANGED response
             ELSE Return(MismatchResponse, 80) /\ UNCHANGED originSent
    /\ UNCHANGED <<request, cookies, cfAuthCookie, lookupSent, origin>>

\* Lines 83-86: the awaited lookup rejected, the catch block answers.
IdentityFailed ==
    /\ pc = "AwaitIdentity"
    /\ identity' = [NoIdentity EXCEPT !.kind = "rejected"]
    /\ Return(InternalErrorResponse, 85)
    /\ UNCHANGED <<request, cookies, cfAuthCookie, lookupSent, originSent, origin>>

\* Line 76: the promise of fetch(request) resolves with the origin's response.
OriginResponded ==
    /\ pc = "AwaitOrigin"
    /\ \E r \in OriginResponses :
          /\ origin' = [kind |-> "response", response |-> r]
          /\ response' = ReturnedResponse(r)
    /\ pc' = "Responded"
    /\ UNCHANGED <<request, cookies, cfAuthCookie, lookupSent, identity, originSent, exit>>

\* Line 76: the promise of fetch(request) rejects.  It was returned without
\* await, so the try block has been left and the rejection becomes the
\* rejection of handleRequest's own promise.
OriginFailed ==
    /\ pc = "AwaitOrigin"
    /\ pc' = "Rejected"
    /\ origin' = [NoOrigin EXCEPT !.kind = "rejected"]
    /\ UNCHANGED <<request, cookies, cfAuthCookie, lookupSent, identity, originSent,
                   response, exit>>

Next ==
    \/ CheckCookieHeader
    \/ ExtractToken
    \/ CheckClientIP
    \/ LookupIdentity
    \/ IdentityResponded
    \/ BodyRead
    \/ IdentityFailed
    \/ OriginResponded
    \/ OriginFailed

Spec == Init /\ [][Next]_vars

(***************************************************************************)
(* Vocabulary of the properties, stated without the operators above        *)
(***************************************************************************)
NonEmptyString(x) == x.t = "string" /\ x.v # <<>>

TokenName == <<"CF_Authorization">>

\* The name and the value of one trimmed entry, cut at its first '='.
EntryName(e) ==
    IF \E i \in 1..Len(e) : e[i] = "="
    THEN SubSeq(e, 1, (CHOOSE i \in 1..Len(e) :
                           e[i] = "=" /\ \A j \in 1..(i - 1) : e[j] # "=") - 1)
    ELSE e

EntryValue(e) == SubSeq(e, Len(EntryName(e)) + 2, Len(e))

\* The cookie jar of a header: split on ';', trim, cut at the first '=',
\* drop empty names, the last occurrence of a name wins.
CookieJarOf(header) ==
    LET entries == Split(header, ";")
        e(k) == Trim(entries[k])
        names == {EntryName(e(k)) : k \in 1..Len(entries)} \ {<<>>}
        last(n) == CHOOSE k \in 1..Len(entries) :
                       /\ EntryName(e(k)) = n
                       /\ \A m \in (k + 1)..Len(entries) : EntryName(e(m)) # n
    IN [n \in names |-> EntryValue(e(last(n)))]

\* The request carries a non-empty CF_Authorization token.
HasToken ==
    /\ request.cookie.t = "string"
    /\ TokenName \in DOMAIN CookieJarOf(request.cookie.v)
    /\ CookieJarOf(request.cookie.v)[TokenName] # <<>>

HasClientIP == NonEmptyString(request.clientIP)

LookupAnswered == identity.kind = "response"

Lookup2xx == LookupAnswered /\ identity.status \in 200..299

\* The identity record carries a non-empty ip string.
HasIdentityIP ==
    /\ identity.body.kind = "object"
    /\ NonEmptyString(identity.body.ip)

Forbidden403 == response.status = 403 /\ response.body = "Forbidden"

OriginContacted == originSent # <<>>

Terminal == pc \in {"Responded", "Rejected"}

(***************************************************************************)
(* Properties                                                              *)
(***************************************************************************)
\* C1: the origin is contacted only if the Cookie header is present, it
\* yields a non-empty CF_Authorization token, CF-Connecting-IP is present,
\* the lookup answered 2xx, its body carries a non-empty ip, and that ip is
\* exactly the CF-Connecting-IP value.
C1_AdmitOnlyOnExactMatch ==
    OriginContacted =>
        /\ request.cookie.t = "string"
        /\ HasToken
        /\ HasClientIP
        /\ Lookup2xx
        /\ HasIdentityIP
        /\ identity.body.ip.v = request.clientIP.v

C1_Witness ==
    /\ OriginContacted
    /\ pc = "Responded"
    /\ request.clientIP = Str(<<"2001:DB8::A">>)

\* C2: on a match the inbound request is forwarded as it came, once, and
\* the origin's response is the handler's response, field for field.
C2_ForwardedAndReturnedVerbatim ==
    (HasToken /\ HasClientIP /\ Lookup2xx /\ HasIdentityIP
        /\ identity.body.ip.v = request.clientIP.v) =>
        /\ originSent = <<request>>
        /\ origin.kind = "response" => (pc = "Responded" /\ response = origin.response)

C2_Witness ==
    /\ pc = "Responded"
    /\ originSent = <<request>>
    /\ request.method = "POST"
    /\ origin.kind = "response"
    /\ response = origin.response
    /\ response.status = 403

\* C3: a request without a Cookie header, without a CF_Authorization token
\* or without CF-Connecting-IP is answered 403 'Forbidden' by the first of
\* the three checks (Cookie header, token, client address) that fails, and
\* neither the identity lookup nor the origin is called.
C3_MissingInputShortCircuits ==
    (~NonEmptyString(request.cookie) \/ ~HasToken \/ ~HasClientIP) =>
        /\ lookupSent = <<>>
        /\ originSent = <<>>
        /\ pc \in {"Start", "HaveCookieHeader", "HaveToken", "Responded"}
        /\ pc = "Responded" =>
              /\ Forbidden403
              /\ exit = IF ~NonEmptyString(request.cookie) THEN 26
                        ELSE IF ~HasToken THEN 33
                        ELSE 40

C3_Witness ==
    /\ pc = "Responded"
    /\ HasToken
    /\ request.clientIP = Null
    /\ Forbidden403
    /\ lookupSent = <<>>

\* C4: a 2xx lookup response without a usable ip (body missing or not a
\* parseable JSON object, ip absent, ip empty) is answered 403 'Forbidden'
\* and the origin is not contacted.
C4_MalformedIdentityIsDenied ==
    (Lookup2xx /\ (\/ identity.body.kind \in {"invalid", "null", "primitive"}
                   \/ /\ identity.body.kind = "object"
                      /\ identity.body.ip \in {Undefined, Str(<<>>)})) =>
        /\ pc = "Responded"
        /\ Forbidden403
        /\ originSent = <<>>

\* C5: a non-2xx lookup response is answered 403 'Forbidden' whatever its
\* body, and the origin is not contacted.
C5_RejectedLookupIsDenied ==
    (LookupAnswered /\ identity.status \notin 200..299) =>
        /\ pc = "Responded"
        /\ Forbidden403
        /\ originSent = <<>>

C5_Witness ==
    /\ LookupAnswered
    /\ identity.status = 401
    /\ HasIdentityIP
    /\ identity.body.ip = request.clientIP
    /\ Forbidden403

\* C6: when the connecting address and the identity record's ip are both
\* non-empty and differ, the answer is 403 with the body 'Forbidden)';
\* every other denial has the body 'Forbidden'.
C6_MismatchBody ==
    /\ (Lookup2xx /\ HasClientIP /\ HasIdentityIP
           /\ identity.body.ip.v # request.clientIP.v) =>
          /\ pc = "Responded"
          /\ response.status = 403
          /\ response.body = "Forbidden)"
    /\ (pc = "Responded" /\ exit \in {26, 33, 40, 60, 70}) => Forbidden403

C6_Witness ==
    /\ pc = "Responded"
    /\ request.clientIP = Str(<<"2001:DB8::A">>)
    /\ Lookup2xx
    /\ identity.body.ip = Str(<<"2001:db8::a">>)
    /\ response.body = "Forbidden)"

\* C7: when the lookup call rejects at the transport level the answer is
\* 500 'Internal Server Error' and the origin is not contacted.
C7_TransportFailureIs500 ==
    identity.kind = "rejected" =>
        /\ pc = "Responded"
        /\ response.status = 500
        /\ response.body = "Internal Server Error"
        /\ originSent = <<>>

C7_Witness ==
    /\ identity.kind = "rejected"
    /\ pc = "Responded"
    /\ response.status = 500

\* C8: whatever the outcome of the lookup and of the origin forward, the
\* handler ends in Responded with a response; its promise never rejects.
C8_AlwaysResponds ==
    /\ pc # "Rejected"
    /\ Terminal => response # NoResponse

\* C9: parseCookies returns the jar obtained by splitting on ';', trimming,
\* cutting each entry at its first '=', dropping empty names, last
\* occurrence winning.
C9_ParseCookiesIsTheJar ==
    (pc \notin {"Start", "HaveCookieHeader"} /\ exit # 26) =>
        cookies = CookieJarOf(request.cookie.v)

\* Apart from the name __proto__, parseCookies does return that jar.
ParseCookiesIsTheJarWithoutProto ==
    (pc \notin {"Start", "HaveCookieHeader"} /\ exit # 26) =>
        LET jar == CookieJarOf(request.cookie.v)
        IN cookies = [n \in (DOMAIN jar) \ {<<"__proto__">>} |-> jar[n]]

\* C10: a request that passes the token and client-address checks issues
\* exactly one identity lookup, never a second one, and no later step is
\* taken before that call has settled.
C10_ExactlyOneLookup ==
    /\ Len(lookupSent) <= 1
    /\ (HasToken /\ HasClientIP /\ pc \notin {"Start", "HaveCookieHeader", "HaveToken", "HaveClientIP"})
          => Len(lookupSent) = 1
    /\ (pc \in {"AwaitBody", "AwaitOrigin", "Rejected"} \/ exit \in {60, 70, 76, 80, 85})
          => (Len(lookupSent) = 1 /\ identity.kind # "none")
    /\ exit \in {70, 76, 80}
          => (identity.kind = "response" /\ identity.body.kind \notin {"none", "pending"})
    /\ (lookupSent # <<>> /\ identity.kind = "none") => pc = "AwaitIdentity"

\* Apart from the requests on which identityHeaders.append throws (the
\* handler rejects before anything was sent), exactly one lookup is issued.
ExactlyOneLookupUnlessAppendThrows ==
    ~(pc = "Rejected" /\ lookupSent = <<>> /\ originSent = <<>>) => C10_ExactlyOneLookup

====
